---- MODULE Spec2Model ----
(***************************************************************************)
(* Model of rss_to_telegram.py: one run of main() is load state -> fetch   *)
(* feed -> sort and select -> deliver oldest-first -> truncate and save.   *)
(*                                                                         *)
(* Strings are sequences of one-character strings ("" is << >>), so that   *)
(* clean_text, pick_entry_id and build_message are computed as the code    *)
(* computes them.  A parsed time struct is << >> (None) or <<t>>.          *)
(*                                                                         *)
(* The seen-set is a set of identifiers.  To reach the cap of 1000 the     *)
(* identifiers that no entry of the modelled feeds can yield are counted   *)
(* (field anon) instead of enumerated; they are pairwise distinct and      *)
(* distinct from every named identifier.                                   *)
(***************************************************************************)
EXTENDS Integers, Sequences, FiniteSets, TLC

\* ---------------------------------------------------------------- bounds
MaxFeed == 3
MaxRuns == 2
MaxItemsHi == 2
AnonSlack == 1

\* ------------------------------------------------------ program constants
SeenCap == 1000
DefaultMaxItems == 5
SummaryMax == 280
SummaryCut == 277

Procs == {1, 2}
Runners == {1}

\* ------------------------------------------------------------- sequences
Range(s) == {s[i] : i \in 1..Len(s)}

Reverse(s) == [i \in 1..Len(s) |-> s[Len(s) + 1 - i]]

Min(a, b) == IF a <= b THEN a ELSE b

Perms(S) == {f \in [1..Cardinality(S) -> S] : \A i, j \in 1..Cardinality(S) : f[i] = f[j] => i = j}

RECURSIVE Concat(_)
Concat(ss) == IF ss = << >> THEN << >> ELSE Head(ss) \o Concat(Tail(ss))

\* --------------------------------------------------------------- strings
Whitespace == {" ", "\n", "\r", "\t"}

ReplaceNewlines(s) == [i \in 1..Len(s) |-> IF s[i] \in {"\n", "\r"} THEN " " ELSE s[i]]

HasDoubleSpace(s) == \E i \in 1..(Len(s) - 1) : s[i] = " " /\ s[i + 1] = " "

RECURSIVE ReplaceDoubleSpace(_)
ReplaceDoubleSpace(s) ==
    IF Len(s) < 2 THEN s
    ELSE IF s[1] = " " /\ s[2] = " " THEN <<" ">> \o ReplaceDoubleSpace(SubSeq(s, 3, Len(s)))
    ELSE <<s[1]>> \o ReplaceDoubleSpace(Tail(s))

RECURSIVE CollapseSpaces(_)
CollapseSpaces(s) == IF HasDoubleSpace(s) THEN CollapseSpaces(ReplaceDoubleSpace(s)) ELSE s

RECURSIVE LStrip(_)
LStrip(s) == IF s # << >> /\ Head(s) \in Whitespace THEN LStrip(Tail(s)) ELSE s

RECURSIVE RStrip(_)
RStrip(s) == IF s # << >> /\ s[Len(s)] \in Whitespace THEN RStrip(SubSeq(s, 1, Len(s) - 1)) ELSE s

Strip(s) == RStrip(LStrip(s))

clean_text(s) == IF s = << >> THEN << >> ELSE Strip(CollapseSpaces(ReplaceNewlines(s)))

\* a or b, on strings: the first truthy (non-empty) operand, else the last
Or(a, b) == IF a # << >> THEN a ELSE b

\* --------------------------------------------------------------- entries
NoTime == << >>

Entry(id, guid, link, title, published, summary, pp, up) ==
    [id |-> id, guid |-> guid, link |-> link, title |-> title, published |-> published,
     summary |-> summary, description |-> << >>, published_parsed |-> pp, updated_parsed |-> up]

\* id and title, newest
E1 == Entry(<<"x">>, << >>, << >>, <<"a">>, << >>, << >>, <<2>>, NoTime)
\* same id as E1, nothing to display, no timestamp
E2 == Entry(<<"x">>, << >>, << >>, << >>, << >>, << >>, NoTime, NoTime)
\* identified by its link, only an updated timestamp
E3 == Entry(<< >>, << >>, <<"l">>, << >>, << >>, <<"a", "\n", " ", "b">>, NoTime, <<1>>)
\* no id, guid or link; a title of white space; same timestamp as E1
E4 == Entry(<< >>, << >>, << >>, <<" ">>, << >>, << >>, <<2>>, <<1>>)

EntryPool == {E1, E2, E3, E4}

pick_entry_id(e) == Or(e.id, Or(e.guid, Or(e.link, e.title \o <<"|">> \o e.published)))

mktime(pp) == pp[1]

entry_sort_key(e) ==
    LET pp == Or(e.published_parsed, e.updated_parsed)
    IN  IF pp # << >> THEN mktime(pp) ELSE 0

Join(parts) ==
    Concat([i \in 1..Len(parts) |-> IF i = 1 THEN parts[i] ELSE <<"\n", "\n">> \o parts[i]])

build_message(e, source_title) ==
    LET title == clean_text(e.title)
        link == e.link
        summary0 == clean_text(Or(e.summary, Or(e.description, << >>)))
        summary == IF Len(summary0) > SummaryMax
                   THEN RStrip(SubSeq(summary0, 1, SummaryCut)) \o <<".", ".", ".">>
                   ELSE summary0
        parts == (IF title # << >> THEN <<(<<"NEWSPAPER", " ">> \o title)>> ELSE << >>)
                 \o (IF summary # << >> THEN <<summary>> ELSE << >>)
                 \o (IF link # << >> THEN <<(<<"Kaynak:", " ">> \o link)>> ELSE << >>)
                 \o (IF source_title # << >> THEN <<(<<"(">> \o source_title \o <<")">>)>> ELSE << >>)
    \* the list is built once, then joined, then stripped
    IN  CHOOSE m \in {Strip(joined) : joined \in {Join(ps) : ps \in {parts}}} : TRUE

\* ------------------------------------------------------------- selection
RECURSIVE InsertDesc_TiesFirst(_, _)
InsertDesc_TiesFirst(sorted, e) ==
    IF sorted = << >> THEN <<e>>
    ELSE IF entry_sort_key(Head(sorted)) > entry_sort_key(e)
         THEN <<Head(sorted)>> \o InsertDesc_TiesFirst(Tail(sorted), e)
         ELSE <<e>> \o sorted

\* list.sort(key=..., reverse=True): stable, equal keys keep their order
RECURSIVE InsertDesc(_, _)
InsertDesc(sorted, e) ==
    IF sorted = << >> THEN <<e>>
    ELSE IF entry_sort_key(Head(sorted)) >= entry_sort_key(e)
         THEN <<Head(sorted)>> \o InsertDesc(Tail(sorted), e)
         ELSE <<e>> \o sorted

RECURSIVE SortEntries(_)
SortEntries(es) ==
    IF es = << >> THEN << >>
    ELSE InsertDesc(SortEntries(SubSeq(es, 1, Len(es) - 1)), es[Len(es)])

\* the loop of lines 102-109 over the entries from position i on
RECURSIVE SelectFrom(_, _, _, _, _)
SelectFrom(es, i, seen_ids, max_items, acc) ==
    IF i > Len(es) THEN acc
    ELSE LET eid == pick_entry_id(es[i])
         IN  IF eid \in seen_ids THEN SelectFrom(es, i + 1, seen_ids, max_items, acc)
             ELSE LET acc2 == Append(acc, <<eid, es[i]>>)
                  IN  IF Len(acc2) >= max_items THEN acc2
                      ELSE SelectFrom(es, i + 1, seen_ids, max_items, acc2)

Select_NoFilter(es, seen_ids, max_items) == SelectFrom(es, 1, {}, max_items, << >>)

Select(es, seen_ids, max_items) == SelectFrom(es, 1, seen_ids, max_items, << >>)

\* ------------------------------------------------------------ seen lists
\* a seen-set: the named identifiers and the number of counted ones
SeenSize(s) == Cardinality(s.named) + s.anon

\* list(seen): the iteration order of a set of strings is unspecified; every
\* order of the named identifiers is possible, the counted ones interleaved
ListOf(s) == {[named |-> perm, anon |-> s.anon] : perm \in Perms(s.named)}

ListLen(l) == Len(l.named) + l.anon

\* l[-n:] for every interleaving of the counted identifiers: k of the cut
\* elements are named ones (the first k in list order), the rest counted ones
LastN(l, n) ==
    LET cut == IF ListLen(l) > n THEN ListLen(l) - n ELSE 0
    IN  {[named |-> SubSeq(l.named, k + 1, Len(l.named)), anon |-> l.anon - (cut - k)] :
            k \in {j \in 0..Len(l.named) : j <= cut /\ cut - j <= l.anon}}

Truncated_KeepsAll(l) == {l}

Truncated(l) == IF ListLen(l) > SeenCap THEN LastN(l, SeenCap) ELSE {l}

\* ------------------------------------------------------------------ state
VARIABLES
    environ,       \* os.environ: FEED_URL, TELEGRAM_BOT_TOKEN, TELEGRAM_CHANNEL, MAX_ITEMS
    feed,          \* what feedparser.parse(feed_url) returns: title and entries
    file,          \* .state/state.json
    pc,            \* position of each invocation of main()
    state,         \* main: state["seen_ids"] as loaded
    seen,          \* main: seen
    source_title,  \* main: source_title
    entries,       \* main: entries
    to_post,       \* main: to_post, a list of (eid, entry)
    idx,           \* main: position of the delivery loop in to_post
    output,        \* the line printed to standard output
    io,            \* history: the file and network operations of the current run
    file0,         \* history: the state file when the current run started
    runs,          \* number of invocations started
    prev           \* history: the earlier invocations

vars == <<environ, feed, file, pc, state, seen, source_title, entries, to_post, idx,
          output, io, file0, runs, prev>>

world == <<environ, feed>>

MaxItemsVals == (0..MaxItemsHi) \cup {DefaultMaxItems}

Env(url, token, channel, n) ==
    [FEED_URL |-> url, TELEGRAM_BOT_TOKEN |-> token, TELEGRAM_CHANNEL |-> channel, MAX_ITEMS |-> n]

GoodEnvs == {Env(<<"u">>, <<"k">>, <<"c">>, n) : n \in MaxItemsVals}

BadEnvs == {Env(<< >>, <<"k">>, <<"c">>, DefaultMaxItems),
            Env(<<"u">>, <<" ">>, <<"c">>, DefaultMaxItems),
            Env(<<"u">>, <<"k">>, << >>, DefaultMaxItems)}

Feeds == {[title |-> t, entries |-> es] :
             t \in {<< >>, <<" ", "t">>},
             es \in UNION {{f \in [1..n -> EntryPool] : \A i, j \in 1..n : f[i] = f[j] => i = j} :
                             n \in 0..MaxFeed}}

PoolIds == {pick_entry_id(e) : e \in EntryPool}

AnonVals == {0} \cup ((SeenCap - AnonSlack)..(SeenCap + AnonSlack))

EmptyList == [named |-> << >>, anon |-> 0]

EmptySet == [named |-> {}, anon |-> 0]

\* no file, a file json.loads rejects, and files of the shape save_state writes
\* (an edited file may hold more than SeenCap identifiers); and files that
\* json.loads accepts but that are not of that shape: "notdict" is a JSON
\* value that is no object (such as [] or null), "badids" an object whose
\* seen_ids is no list of strings that set() accepts (such as null or 5)
Files == {[kind |-> k, seen_ids |-> EmptyList] : k \in {"absent", "corrupt", "notdict", "badids"}}
         \cup {[kind |-> "valid", seen_ids |-> [named |-> CHOOSE q \in Perms(sa[1]) : TRUE, anon |-> sa[2]]] :
                  sa \in (SUBSET PoolIds) \X AnonVals}

\* no earlier invocation: how the last one ended, the entries of the feed it
\* saw, what it selected and did, the identifiers delivered by the earlier
\* invocations, those of them that were also saved, and whether all earlier
\* invocations ended normally
NoHistory == [pc |-> "None", entries |-> << >>, to_post |-> << >>, io |-> << >>,
              delivered |-> {}, saved |-> {}, clean |-> TRUE]

Ev(op, eid, ok) == [op |-> op, eid |-> eid, ok |-> ok]

Init ==
    /\ environ \in GoodEnvs \cup BadEnvs
    /\ feed \in Feeds
    /\ file \in Files
    /\ pc = [p \in Procs |-> "Init"]
    /\ state = [p \in Procs |-> EmptyList]
    /\ seen = [p \in Procs |-> EmptySet]
    /\ source_title = [p \in Procs |-> << >>]
    /\ entries = [p \in Procs |-> << >>]
    /\ to_post = [p \in Procs |-> << >>]
    /\ idx = [p \in Procs |-> 1]
    /\ output = [p \in Procs |-> << >>]
    /\ io = [p \in Procs |-> << >>]
    /\ file0 = [p \in Procs |-> file]
    /\ runs = [p \in Procs |-> 1]
    /\ prev = [p \in Procs |-> NoHistory]

\* ---------------------------------------------------------------- actions
MissingEnv ==
    \/ Strip(environ.FEED_URL) = << >>
    \/ Strip(environ.TELEGRAM_BOT_TOKEN) = << >>
    \/ Strip(environ.TELEGRAM_CHANNEL) = << >>

max_items == environ.MAX_ITEMS

ConfigError_AfterLoad(p) ==
    /\ pc[p] = "Init"
    /\ Strip(environ.FEED_URL) = << >> \/ Strip(environ.TELEGRAM_BOT_TOKEN) = << >>
          \/ Strip(environ.TELEGRAM_CHANNEL) = << >>
    /\ io' = [io EXCEPT ![p] = Append(@, [op |-> "load", eid |-> << >>, ok |-> TRUE])]
    /\ pc' = [pc EXCEPT ![p] = "Failed"]
    /\ UNCHANGED <<world, file, state, seen, source_title, entries, to_post, idx, output,
                   file0, runs, prev>>

\* lines 71-75: raise SystemExit("Missing env vars: ...")
ConfigError(p) ==
    /\ pc[p] = "Init"
    /\ MissingEnv
    /\ pc' = [pc EXCEPT ![p] = "Failed"]
    /\ UNCHANGED <<world, file, state, seen, source_title, entries, to_post, idx, output, io,
                   file0, runs, prev>>

load_state_AlwaysEmpty(f) == [named |-> << >>, anon |-> 0]

\* load_state(): the parsed file, or {} when it is absent or does not parse;
\* state.get("seen_ids", [])
load_state(f) == IF f.kind = "valid" THEN f.seen_ids ELSE EmptyList

\* line 80 on what load_state returned: state.get raises AttributeError when
\* state is no dict, set() raises TypeError when seen_ids is not iterable or
\* holds an unhashable value
LoadRaises(f) == f.kind \in {"notdict", "badids"}

\* set(list)
SetOf(l) == [named |-> Range(l.named), anon |-> l.anon]

\* lines 71-80
LoadState(p) ==
    /\ pc[p] = "Init"
    /\ ~MissingEnv
    /\ ~LoadRaises(file)
    /\ state' = [state EXCEPT ![p] = load_state(file)]
    /\ seen' = [seen EXCEPT ![p] = SetOf(load_state(file))]
    /\ io' = [io EXCEPT ![p] = Append(@, Ev("load", << >>, TRUE))]
    /\ pc' = [pc EXCEPT ![p] = "Loaded"]
    /\ UNCHANGED <<world, file, source_title, entries, to_post, idx, output, file0, runs, prev>>

\* lines 71-80, line 80 raises
LoadStateError(p) ==
    /\ pc[p] = "Init"
    /\ ~MissingEnv
    /\ LoadRaises(file)
    /\ io' = [io EXCEPT ![p] = Append(@, Ev("load", << >>, TRUE))]
    /\ pc' = [pc EXCEPT ![p] = "Failed"]
    /\ UNCHANGED <<world, file, state, seen, source_title, entries, to_post, idx, output,
                   file0, runs, prev>>

FetchFeed_Saves(p) ==
    /\ pc[p] = "Loaded"
    /\ source_title' = [source_title EXCEPT ![p] = clean_text(feed.title)]
    /\ entries' = [entries EXCEPT ![p] = feed.entries]
    /\ IF feed.entries = << >>
       THEN /\ output' = [output EXCEPT ![p] = <<"No entries found in feed.">>]
            /\ io' = [io EXCEPT ![p] = @ \o <<Ev("fetch", << >>, TRUE), Ev("save", << >>, TRUE)>>]
            /\ file' = [kind |-> "valid",
                        seen_ids |-> [named |-> CHOOSE q \in Perms(seen[p].named) : TRUE,
                                      anon |-> seen[p].anon]]
            /\ pc' = [pc EXCEPT ![p] = "Done"]
       ELSE /\ output' = output
            /\ io' = [io EXCEPT ![p] = Append(@, Ev("fetch", << >>, TRUE))]
            /\ file' = file
            /\ pc' = [pc EXCEPT ![p] = "Fetched"]
    /\ UNCHANGED <<world, state, seen, to_post, idx, file0, runs, prev>>

\* lines 82-92
FetchFeed(p) ==
    /\ pc[p] = "Loaded"
    /\ source_title' = [source_title EXCEPT ![p] = clean_text(feed.title)]
    /\ entries' = [entries EXCEPT ![p] = feed.entries]
    /\ io' = [io EXCEPT ![p] = Append(@, Ev("fetch", << >>, TRUE))]
    /\ IF feed.entries = << >>
       THEN /\ output' = [output EXCEPT ![p] = <<"No entries found in feed.">>]
            /\ pc' = [pc EXCEPT ![p] = "Done"]
       ELSE /\ output' = output
            /\ pc' = [pc EXCEPT ![p] = "Fetched"]
    /\ UNCHANGED <<world, file, state, seen, to_post, idx, file0, runs, prev>>

\* lines 94-115
SelectEntries(p) ==
    /\ pc[p] = "Fetched"
    /\ LET sorted == SortEntries(entries[p])
           selected == Select(sorted, seen[p].named, max_items)
       IN  /\ entries' = [entries EXCEPT ![p] = sorted]
           /\ IF selected = << >>
              THEN /\ to_post' = [to_post EXCEPT ![p] = selected]
                   /\ output' = [output EXCEPT ![p] = <<"No new items to post.">>]
                   /\ pc' = [pc EXCEPT ![p] = "Done"]
              ELSE /\ to_post' = [to_post EXCEPT ![p] = Reverse(selected)]
                   /\ output' = output
                   /\ pc' = [pc EXCEPT ![p] = "Delivering"]
    /\ idx' = [idx EXCEPT ![p] = 1]
    /\ UNCHANGED <<world, file, state, seen, source_title, io, file0, runs, prev>>

InLoop(p) == pc[p] = "Delivering" /\ idx[p] <= Len(to_post[p])

CurEid(p) == to_post[p][idx[p]][1]

CurMsg(p) == build_message(to_post[p][idx[p]][2], source_title[p])

SkipEmpty_Marks(p) ==
    /\ pc[p] = "Delivering" /\ idx[p] <= Len(to_post[p])
    /\ build_message(to_post[p][idx[p]][2], source_title[p]) = << >>
    /\ seen' = [seen EXCEPT ![p].named = @ \cup {to_post[p][idx[p]][1]}]
    /\ idx' = [idx EXCEPT ![p] = @ + 1]
    /\ UNCHANGED <<world, file, pc, state, source_title, entries, to_post, output, io,
                   file0, runs, prev>>

SkipEmpty_Sends(p) ==
    /\ pc[p] = "Delivering" /\ idx[p] <= Len(to_post[p])
    /\ build_message(to_post[p][idx[p]][2], source_title[p]) = << >>
    /\ io' = [io EXCEPT ![p] = Append(@, Ev("send", to_post[p][idx[p]][1], TRUE))]
    /\ seen' = [seen EXCEPT ![p].named = @ \cup {to_post[p][idx[p]][1]}]
    /\ idx' = [idx EXCEPT ![p] = @ + 1]
    /\ UNCHANGED <<world, file, pc, state, source_title, entries, to_post, output,
                   file0, runs, prev>>

\* lines 117-120: if not msg: continue
SkipEmpty(p) ==
    /\ InLoop(p)
    /\ CurMsg(p) = << >>
    /\ idx' = [idx EXCEPT ![p] = @ + 1]
    /\ UNCHANGED <<world, file, pc, state, seen, source_title, entries, to_post, output, io,
                   file0, runs, prev>>

\* seen.add(eid)
SetAdd(s, eid) == [s EXCEPT !.named = @ \cup {eid}]

SendOk_Saves(p) ==
    /\ pc[p] = "Delivering" /\ idx[p] <= Len(to_post[p])
    /\ build_message(to_post[p][idx[p]][2], source_title[p]) # << >>
    /\ io' = [io EXCEPT ![p] = @ \o <<Ev("send", to_post[p][idx[p]][1], TRUE),
                                       Ev("save", << >>, TRUE)>>]
    /\ seen' = [seen EXCEPT ![p] = SetAdd(@, to_post[p][idx[p]][1])]
    /\ idx' = [idx EXCEPT ![p] = @ + 1]
    /\ UNCHANGED <<world, file, pc, state, source_title, entries, to_post, output, file0, runs, prev>>

\* lines 117-123, telegram_send_message returns
SendOk(p) ==
    /\ InLoop(p)
    /\ CurMsg(p) # << >>
    /\ io' = [io EXCEPT ![p] = Append(@, Ev("send", CurEid(p), TRUE))]
    /\ seen' = [seen EXCEPT ![p] = SetAdd(@, CurEid(p))]
    /\ idx' = [idx EXCEPT ![p] = @ + 1]
    /\ UNCHANGED <<world, file, pc, state, source_title, entries, to_post, output, file0, runs, prev>>

SendFail_Saves(p) ==
    /\ pc[p] = "Delivering" /\ idx[p] <= Len(to_post[p])
    /\ build_message(to_post[p][idx[p]][2], source_title[p]) # << >>
    /\ io' = [io EXCEPT ![p] = Append(@, Ev("send", to_post[p][idx[p]][1], FALSE))]
    /\ \E seen_list \in ListOf(seen[p]) :
          \E kept \in Truncated(seen_list) :
             file' = [kind |-> "valid", seen_ids |-> kept]
    /\ pc' = [pc EXCEPT ![p] = "Failed"]
    /\ UNCHANGED <<world, state, seen, source_title, entries, to_post, idx, output,
                   file0, runs, prev>>

SendFail_Continues(p) ==
    /\ pc[p] = "Delivering" /\ idx[p] <= Len(to_post[p])
    /\ build_message(to_post[p][idx[p]][2], source_title[p]) # << >>
    /\ io' = [io EXCEPT ![p] = Append(@, Ev("send", to_post[p][idx[p]][1], FALSE))]
    /\ idx' = [idx EXCEPT ![p] = @ + 1]
    /\ UNCHANGED <<world, file, pc, state, seen, source_title, entries, to_post, output,
                   file0, runs, prev>>

\* lines 117-121, telegram_send_message raises (lines 65 and 68)
SendFail(p) ==
    /\ InLoop(p)
    /\ CurMsg(p) # << >>
    /\ io' = [io EXCEPT ![p] = Append(@, Ev("send", CurEid(p), FALSE))]
    /\ pc' = [pc EXCEPT ![p] = "Failed"]
    /\ UNCHANGED <<world, file, state, seen, source_title, entries, to_post, idx, output,
                   file0, runs, prev>>

\* a save that reads the file again and keeps what it holds
Persist_Merges(p) ==
    /\ pc[p] = "Delivering"
    /\ idx[p] > Len(to_post[p])
    /\ LET merged == [seen[p] EXCEPT !.named = @ \cup Range(file.seen_ids.named)]
       IN  \E seen_list \in ListOf(merged) :
              \E kept \in Truncated(seen_list) :
                 file' = [kind |-> "valid", seen_ids |-> kept]
    /\ io' = [io EXCEPT ![p] = Append(@, Ev("save", << >>, TRUE))]
    /\ output' = [output EXCEPT ![p] = <<"Posted", Len(to_post[p]), "item(s).">>]
    /\ pc' = [pc EXCEPT ![p] = "Done"]
    /\ UNCHANGED <<world, state, seen, source_title, entries, to_post, idx, file0, runs, prev>>

\* lines 125-131
Persist(p) ==
    /\ pc[p] = "Delivering"
    /\ idx[p] > Len(to_post[p])
    /\ \E seen_list \in ListOf(seen[p]) :
          \E kept \in Truncated(seen_list) :
             file' = [kind |-> "valid", seen_ids |-> kept]
    /\ io' = [io EXCEPT ![p] = Append(@, Ev("save", << >>, TRUE))]
    /\ output' = [output EXCEPT ![p] = <<"Posted", Len(to_post[p]), "item(s).">>]
    /\ pc' = [pc EXCEPT ![p] = "Done"]
    /\ UNCHANGED <<world, state, seen, source_title, entries, to_post, idx, file0, runs, prev>>

\* a new process: nothing of the earlier one is kept but the state file
NewRun(p) ==
    /\ pc[p] \in {"Done", "Failed"}
    /\ pc' = [pc EXCEPT ![p] = "Init"]
    /\ state' = [state EXCEPT ![p] = EmptyList]
    /\ seen' = [seen EXCEPT ![p] = EmptySet]
    /\ source_title' = [source_title EXCEPT ![p] = << >>]
    /\ entries' = [entries EXCEPT ![p] = << >>]
    /\ to_post' = [to_post EXCEPT ![p] = << >>]
    /\ idx' = [idx EXCEPT ![p] = 1]
    /\ output' = [output EXCEPT ![p] = << >>]
    /\ io' = [io EXCEPT ![p] = << >>]
    /\ file0' = [file0 EXCEPT ![p] = file]
    /\ LET sent == {io[p][i].eid : i \in {j \in 1..Len(io[p]) : io[p][j].op = "send" /\ io[p][j].ok}}
           wrote == \E i \in 1..Len(io[p]) : io[p][i].op = "save"
       IN  prev' = [prev EXCEPT ![p] =
                       [pc |-> pc[p], entries |-> feed.entries, to_post |-> to_post[p],
                        io |-> io[p],
                        delivered |-> @.delivered \cup sent,
                        saved |-> @.saved \cup (IF wrote /\ SeenSize(seen[p]) <= SeenCap
                                                THEN sent ELSE {}),
                        clean |-> @.clean /\ pc[p] = "Done"]]
    /\ UNCHANGED <<world, file>>

\* the next scheduled invocation of the script
Restart(p) ==
    /\ runs[p] < MaxRuns
    /\ runs' = [runs EXCEPT ![p] = @ + 1]
    /\ NewRun(p)

\* the scheduler starts the script again and again (invocations beyond MaxRuns
\* are not counted)
RunAgain(p) ==
    /\ runs' = [runs EXCEPT ![p] = Min(@ + 1, MaxRuns)]
    /\ NewRun(p)

\* one step of the invocation p of main()
Step(p) ==
    \/ ConfigError(p)
    \/ LoadState(p)
    \/ LoadStateError(p)
    \/ FetchFeed(p)
    \/ SelectEntries(p)
    \/ SkipEmpty(p)
    \/ SendOk(p)
    \/ SendFail(p)
    \/ Persist(p)

\* one invocation, from every environment, feed and state file
Next == \E p \in Runners : Step(p)

Spec == Init /\ [][Next]_vars

\* the site publishes an entry, which the feed lists first
Publish ==
    /\ Len(feed.entries) < MaxFeed
    /\ \E e \in EntryPool \ Range(feed.entries) :
          feed' = [feed EXCEPT !.entries = <<e>> \o @]
    /\ UNCHANGED <<environ, file, pc, state, seen, source_title, entries, to_post, idx,
                   output, io, file0, runs, prev>>

\* an entry published between two invocations
PublishBetween ==
    /\ \A p \in Runners : pc[p] = "Init"
    /\ Publish

\* invocations one after the other, as an external scheduler starts them
NextRuns == PublishBetween \/ \E p \in Runners : Step(p) \/ Restart(p)

\* the state file holds none of the counted identifiers, so that the cap is
\* never reached
InitRuns ==
    /\ Init
    /\ file.kind \in {"absent", "valid", "notdict"}
    /\ file.seen_ids.anon = 0

SpecRuns == InitRuns /\ [][NextRuns]_vars

\* one step of an invocation whose sends all succeed
StepOk(p) ==
    \/ LoadState(p)
    \/ FetchFeed(p)
    \/ SelectEntries(p)
    \/ SkipEmpty(p)
    \/ SendOk(p)
    \/ Persist(p)

\* invocations one after the other without end, on a feed that stays as it is
NextLive == \E p \in Runners : StepOk(p) \/ RunAgain(p)

\* a complete configuration with max_items >= 1, a feed of at most two
\* entries, no state file or one that save_state wrote, far below the cap
InitLive ==
    /\ Init
    /\ ~MissingEnv
    /\ max_items \in {1, DefaultMaxItems}
    /\ Len(feed.entries) <= 2
    /\ file.kind \in {"absent", "valid"}
    /\ file.seen_ids.anon = 0

\* every started invocation goes on to its end and the scheduler always starts
\* the next one
SpecLive == InitLive /\ [][NextLive]_vars /\ WF_vars(NextLive)

\* two invocations on the same state file whose steps interleave in any order,
\* while the site publishes entries
NextConc == Publish \/ \E p \in Procs : Step(p)

\* a feed of at most two entries with distinct identifiers, MAX_ITEMS 1 or
\* unset, no state file or one that is no JSON object
InitConc ==
    /\ Init
    /\ environ.MAX_ITEMS \in {1, DefaultMaxItems}
    /\ file.kind \in {"absent", "notdict"}
    /\ feed.title = << >>
    /\ Range(feed.entries) \subseteq {E1, E3, E4}
    /\ Len(feed.entries) <= 2

SpecConc == InitConc /\ [][NextConc]_vars

\* ----------------------------------------------------------- observations
\* the process ended with an uncaught exception or SystemExit(message)
ExitNonZero(p) == pc[p] = "Failed"

ExitZero(p) == pc[p] = "Done"

Sends(p) == {i \in 1..Len(io[p]) : io[p][i].op = "send"}

OkSends(p) == {i \in Sends(p) : io[p][i].ok}

FailedSends(p) == {i \in Sends(p) : ~io[p][i].ok}

Saves(p) == {i \in 1..Len(io[p]) : io[p][i].op = "save"}

\* identifiers in the seen-set when the run loaded it
LoadedIds(p) == Range(state[p].named)

\* identifiers of the entries delivered so far in the run
DeliveredIds(p) == {io[p][i].eid : i \in OkSends(p)}

\* identifiers delivered by the invocations of p so far
EverDelivered(p) == prev[p].delivered \cup DeliveredIds(p)

\* identifiers that an invocation of p delivered and then wrote to the file
EverSaved(p) == prev[p].saved \cup (IF Saves(p) # {} THEN DeliveredIds(p) ELSE {})

\* every invocation of p so far ran to its end
AllClean(p) == prev[p].clean /\ pc[p] = "Done"

\* the entry has a message to send
Deliverable(e) == build_message(e, clean_text(feed.title)) # << >>

\* the identifier of every feed entry that has a message is in the state file
AllDeliverableSeen ==
    \A e \in Range(feed.entries) :
        Deliverable(e) => pick_entry_id(e) \in Range(file.seen_ids.named)

\* an invocation that has ended reported that there was nothing new
ReportsNothingNew(p) ==
    pc[p] = "Done" => output[p] \in {<<"No new items to post.">>, <<"No entries found in feed.">>}

\* ------------------------------------------------------------------ claims
\* C1: if a send fails during the delivery loop, the run ends in a fatal error
\* (non-zero exit), save_state is never executed in that run and the state
\* file is exactly what it was before the run started, however many earlier
\* sends of the run succeeded.
C1_FailedRunLeavesFile ==
    \A p \in Procs :
        FailedSends(p) # {} => /\ ExitNonZero(p)
                               /\ Saves(p) = {}
                               /\ file = file0[p]

\* a send failed after an earlier send of the run succeeded and added an
\* identifier the loaded seen-set did not hold
C1_Witness ==
    \E p \in Procs :
        /\ FailedSends(p) # {}
        /\ OkSends(p) # {}
        /\ seen[p].named # LoadedIds(p)
        /\ pc[p] = "Failed"

C3_SeenIsLoadedPlusDelivered ==
    \A p \in Procs :
        pc[p] # "Init" /\ io[p] # << >> =>
            /\ seen[p].named = LoadedIds(p) \cup DeliveredIds(p)
            /\ seen[p].anon = state[p].anon
            /\ (Saves(p) # {} /\ SeenSize(seen[p]) <= SeenCap) =>
                   /\ file.kind = "valid"
                   /\ Range(file.seen_ids.named) = LoadedIds(p) \cup DeliveredIds(p)
                   /\ file.seen_ids.anon = state[p].anon

\* scenario B: empty seen-set, three new entries, all delivered and saved
C3_Witness ==
    \E p \in Procs :
        /\ pc[p] = "Done"
        /\ Saves(p) # {}
        /\ state[p] = EmptyList
        /\ Cardinality(OkSends(p)) = 3
        /\ Cardinality(Range(file.seen_ids.named)) = 3
        /\ file.seen_ids.anon = 0

\* C4: no entry whose identifier is in the seen-set loaded at the start of the
\* run is selected for posting or sent, whatever its timestamp or position.
C4_SeenNeverSelected ==
    \A p \in Procs :
        /\ \A i \in 1..Len(to_post[p]) :
              /\ pick_entry_id(to_post[p][i][2]) \notin LoadedIds(p)
              /\ to_post[p][i][1] = pick_entry_id(to_post[p][i][2])
        /\ \A i \in Sends(p) : io[p][i].eid \notin LoadedIds(p)

\* the newest entry of the feed is already seen, an older one is selected
C4_Witness ==
    \E p \in Procs :
        /\ to_post[p] # << >>
        /\ pick_entry_id(entries[p][1]) \in LoadedIds(p)
        /\ entry_sort_key(entries[p][1]) > entry_sort_key(to_post[p][1][2])
        /\ Sends(p) # {}

\* the run has sorted the entries and run the selection loop
HasSelected(p) == pc[p] \in {"Delivering", "Done", "Failed"} /\ Len(io[p]) >= 2 /\ entries[p] # << >>

\* the entries of to_post, in delivery order
Selection(p) == [i \in 1..Len(to_post[p]) |-> to_post[p][i][2]]

\* the entries of the feed whose identifier the loaded seen-set does not hold
Unseen(p) == {e \in Range(feed.entries) : pick_entry_id(e) \notin LoadedIds(p)}

PositionIn(es, e) == CHOOSE i \in 1..Len(es) : es[i] = e

\* C5: for every feed, seen-set and integer MAX_ITEMS the selection holds at
\* most max_items entries and at most max_items messages are sent in a run.
C5_AtMostMaxItems ==
    \A p \in Procs :
        /\ Len(to_post[p]) <= max_items
        /\ Cardinality(Sends(p)) <= max_items

\* C6: the selection is exactly the min(max_items, number of unseen entries)
\* newest unseen entries by timestamp, in oldest-first order; reversed, it is
\* in the order of the newest-first sorted entries.
C6_NewestUnseenOldestFirst ==
    \A p \in Procs :
        HasSelected(p) =>
            LET sel == Selection(p)
                rev == Reverse(sel)
            IN  /\ Len(sel) = Min(max_items, Cardinality(Unseen(p)))
                /\ Range(sel) \subseteq Unseen(p)
                /\ Cardinality(Range(sel)) = Len(sel)
                /\ \A e \in Range(sel) : \A u \in Unseen(p) \ Range(sel) :
                      entry_sort_key(e) >= entry_sort_key(u)
                /\ \A i, j \in 1..Len(sel) :
                      i < j => entry_sort_key(sel[i]) <= entry_sort_key(sel[j])
                /\ \A i, j \in 1..Len(rev) :
                      i < j => PositionIn(entries[p], rev[i]) < PositionIn(entries[p], rev[j])

\* the statement of C6 for the runs with max_items >= 1
C6_HoldsForPositiveMaxItems == max_items >= 1 => C6_NewestUnseenOldestFirst

\* C7: after a run that writes the state file, the persisted seen_ids hold at
\* most 1000 identifiers and no identifier twice, whatever the size of the
\* loaded seen-set and the number of identifiers added in the run.
C7_PersistedBounded ==
    \A p \in Procs :
        Saves(p) # {} =>
            /\ file.kind = "valid"
            /\ ListLen(file.seen_ids) <= SeenCap
            /\ \A i, j \in 1..Len(file.seen_ids.named) :
                  file.seen_ids.named[i] = file.seen_ids.named[j] => i = j

\* a run that loaded more than 1000 identifiers, delivered two more and saved
C7_Witness ==
    \E p \in Procs :
        /\ Saves(p) # {}
        /\ ListLen(state[p]) > SeenCap
        /\ Cardinality(DeliveredIds(p)) >= 2
        /\ ListLen(file.seen_ids) = SeenCap

\* C8: when the seen-set holds more than 1000 identifiers at the end of a run,
\* the truncation keeps the most recently added ones: every identifier added
\* in the run is in the persisted seen_ids.
\* (Stated for the runs with max_items >= 1 that loaded at most 1000
\* identifiers, the states a file written by save_state leads to.)
C8_KeepsAddedIds ==
    \A p \in Procs :
        (/\ Saves(p) # {}
         /\ SeenSize(seen[p]) > SeenCap
         /\ ListLen(state[p]) <= SeenCap
         /\ max_items >= 1) =>
            DeliveredIds(p) \subseteq Range(file.seen_ids.named)

\* the feed is empty, or every entry of it is in the loaded seen-set
NothingToDo(p) ==
    \A i \in 1..Len(feed.entries) : pick_entry_id(feed.entries[i]) \in LoadedIds(p)

\* C9: a run that finds the feed empty, or no unseen entry, ends normally with
\* one informational line, sends nothing and does not write, create or change
\* the state file.
C9_NothingToDoNoEffects ==
    \A p \in Procs :
        (Len(io[p]) >= 2 /\ NothingToDo(p)) =>
            /\ pc[p] \in {"Fetched", "Done"}
            /\ Len(io[p]) = 2
            /\ Sends(p) = {} /\ Saves(p) = {}
            /\ file = file0[p]
            /\ pc[p] = "Done" =>
                  output[p] = IF feed.entries = << >> THEN <<"No entries found in feed.">>
                              ELSE <<"No new items to post.">>

\* a run ended with nothing new: every entry of a feed of two was seen; also
\* with no state file to create
C9_Witness ==
    \E p \in Procs :
        /\ ExitZero(p)
        /\ output[p] = <<"No new items to post.">>
        /\ Len(feed.entries) >= 2
        /\ file.kind = "valid"

C9_WitnessEmptyFeed ==
    \E p \in Procs :
        /\ ExitZero(p)
        /\ output[p] = <<"No entries found in feed.">>
        /\ file.kind = "absent"

\* the selected entries the loop has passed whose message is empty
Skipped(p) ==
    {i \in 1..Len(to_post[p]) : i < idx[p] /\ build_message(to_post[p][i][2], source_title[p]) = << >>}

\* C10 as stated: the identifier of a selected entry whose message is empty is
\* never added to the seen-set.
C10_SkippedIdNeverSeen ==
    \A p \in Procs : \A i \in Skipped(p) : to_post[p][i][1] \notin seen[p].named

\* C10 as amended: the step of the loop at a selected entry whose message is
\* empty sends nothing, adds nothing to the seen-set and moves to the next
\* selected entry.
C10_SkipAddsNothing ==
    [][\A p \in Procs :
          (/\ InLoop(p)
           /\ CurMsg(p) = << >>
           /\ <<pc[p], idx[p], io[p], seen[p]>>' # <<pc[p], idx[p], io[p], seen[p]>>)
              => /\ io'[p] = io[p]
                 /\ seen'[p] = seen[p]
                 /\ to_post'[p] = to_post[p]
                 /\ pc'[p] = "Delivering"
                 /\ idx'[p] = idx[p] + 1]_vars

\* an entry with an empty message was passed and the loop is at the next one
C10_Witness ==
    \E p \in Procs :
        /\ InLoop(p)
        /\ idx[p] - 1 \in Skipped(p)
        /\ Sends(p) = {}
        /\ CurMsg(p) # << >>

\* C11: when a run has persisted and reports "Posted N item(s).", N is the
\* number of items delivered in the run, that is of its successful sends, also
\* when selected entries were skipped because their message was empty.
\* (Stated for the runs with max_items >= 1.)
C11_PostedCountIsDelivered ==
    \A p \in Procs :
        (pc[p] = "Done" /\ Saves(p) # {} /\ max_items >= 1) =>
            output[p] = <<"Posted", Cardinality(OkSends(p)), "item(s).">>

\* the statement of C11 for the runs that skipped no entry
C11_HoldsWithoutSkips ==
    \A p \in Procs :
        (pc[p] = "Done" /\ Saves(p) # {} /\ Skipped(p) = {}) =>
            output[p] = <<"Posted", Cardinality(OkSends(p)), "item(s).">>

\* C12: loading the state is never fatal: whatever the state file holds, a
\* run with its settings present gets past the load with the stored seen-set
\* or an empty one, and does not end with an error before the feed is fetched.
C12_LoadNeverFatal ==
    \A p \in Procs :
        (~MissingEnv /\ pc[p] # "Init") =>
            /\ Len(io[p]) = 1 => pc[p] = "Loaded"
            /\ LoadedIds(p) \in {{}, Range(file0[p].seen_ids.named)}

\* the statement of C12 for the files that are absent, not parseable, or of
\* the shape save_state writes
C12_HoldsForWrittenFiles ==
    \A p \in Procs :
        (~MissingEnv /\ pc[p] # "Init" /\ ~LoadRaises(file0[p])) =>
            /\ Len(io[p]) = 1 => pc[p] = "Loaded"
            /\ LoadedIds(p) \in {{}, Range(file0[p].seen_ids.named)}

Loads(p) == {i \in 1..Len(io[p]) : io[p][i].op = "load"}

Fetches(p) == {i \in 1..Len(io[p]) : io[p][i].op = "fetch"}

\* C14: if FEED_URL, TELEGRAM_BOT_TOKEN or TELEGRAM_CHANNEL is missing or
\* blank, the process aborts with a non-zero status before any read or write
\* of the state file, any feed fetch and any send.
C14_ConfigErrorBeforeAnyIO ==
    \A p \in Procs :
        MissingEnv =>
            /\ pc[p] \in {"Init", "Failed"}
            /\ io[p] = << >>
            /\ file = file0[p]
            /\ output[p] = << >>

\* the token is blank (white space only), a state file exists, the run aborted
C14_Witness ==
    \E p \in Procs :
        /\ environ.TELEGRAM_BOT_TOKEN = <<" ">>
        /\ ExitNonZero(p)
        /\ file.kind = "valid"
        /\ feed.entries # << >>

\* C15: in every run the state file is read at most once, before the feed
\* fetch and before any send, and written at most once, after the last send:
\* no send follows the write and no write lies between two sends.
C15_ReadFirstWriteLast ==
    \A p \in Procs :
        /\ Cardinality(Loads(p)) <= 1
        /\ Cardinality(Saves(p)) <= 1
        /\ Cardinality(Fetches(p)) <= 1
        /\ io[p] # << >> => io[p][1].op = "load"
        /\ \A i \in Loads(p) : \A j \in Fetches(p) \cup Sends(p) \cup Saves(p) : i < j
        /\ \A i \in Fetches(p) : \A j \in Sends(p) \cup Saves(p) : i < j
        /\ \A i \in Saves(p) : i = Len(io[p]) /\ \A j \in Sends(p) : j < i

\* a run that read, fetched, sent twice and then wrote
C15_Witness ==
    \E p \in Procs :
        /\ Cardinality(Sends(p)) >= 2
        /\ Saves(p) # {}
        /\ Loads(p) # {}
        /\ file0[p].kind = "valid"

\* position of the entry e in the feed as fetched
FeedPos(e) == PositionIn(feed.entries, e)

\* C16: the newest-first ordering is stable: entries with equal sort keys keep
\* their feed order in the sorted sequence, so that when the cap cuts among
\* unseen entries of equal key the ones earlier in the feed are selected.
C16_StableOrder ==
    \A p \in Procs :
        HasSelected(p) =>
            /\ \A i, j \in 1..Len(entries[p]) :
                  (i < j /\ entry_sort_key(entries[p][i]) = entry_sort_key(entries[p][j]))
                      => FeedPos(entries[p][i]) < FeedPos(entries[p][j])
            /\ \A u \in Unseen(p) : \A v \in Range(Selection(p)) :
                  (entry_sort_key(u) = entry_sort_key(v) /\ FeedPos(u) < FeedPos(v))
                      => u \in Range(Selection(p))

\* E1 and E4 have the same timestamp and are unseen, E4 comes first in the
\* feed, the cap is 1: E4 is the entry selected
C16_Witness ==
    \E p \in Procs :
        /\ HasSelected(p)
        /\ max_items = 1
        /\ E1 \in Unseen(p) /\ E4 \in Unseen(p)
        /\ FeedPos(E4) < FeedPos(E1)
        /\ Selection(p) = <<E4>>

\* the earlier run of p ended with a failed send, and the feed is as it was
PrevFailedAtSend(p) ==
    /\ prev[p].pc = "Failed"
    /\ prev[p].entries = feed.entries
    /\ \E i \in 1..Len(prev[p].io) : prev[p].io[i].op = "send" /\ ~prev[p].io[i].ok

\* C13: at-least-once retry: when a run failed at its k-th send after k-1
\* successful ones and the next run sees the same feed and MAX_ITEMS, the next
\* run selects the same entries in the same order and its sends are for the
\* same entries in the same order, so that the k-1 delivered entries are sent
\* again before the entry that failed; no selected entry is lost.
C13_RetryAfterFailure ==
    \A p \in Procs :
        (PrevFailedAtSend(p) /\ HasSelected(p)) =>
            /\ to_post[p] = prev[p].to_post
            /\ \A i \in Sends(p) : i <= Len(prev[p].io) => io[p][i].eid = prev[p].io[i].eid
            /\ Len(prev[p].io) \in Sends(p) =>
                  \A j \in 1..(Len(prev[p].io) - 1) : prev[p].io[j].op = "send" => j \in OkSends(p)
            /\ Saves(p) # {} =>
                  \A i \in 1..Len(prev[p].io) :
                      prev[p].io[i].op = "send" =>
                          i \in OkSends(p) /\ io[p][i].eid \in Range(file.seen_ids.named)

\* the earlier run delivered one entry and failed at the second; this run
\* delivered both and saved
C13_Witness ==
    \E p \in Procs :
        /\ PrevFailedAtSend(p)
        /\ Len(prev[p].io) = 4
        /\ prev[p].io[3].ok
        /\ Cardinality(OkSends(p)) = 2
        /\ Saves(p) # {}

\* C18 as stated: over runs that all complete, each identifier is delivered at
\* most once in total, across the runs and within a single run.
C18_DeliveredAtMostOnce ==
    \A p \in Procs :
        (prev[p].clean /\ FailedSends(p) = {}) =>
            /\ \A i \in OkSends(p) : io[p][i].eid \notin prev[p].delivered
            /\ \A i, j \in OkSends(p) : io[p][i].eid = io[p][j].eid => i = j

\* C18 as amended: over runs that all complete (and store at most 1000
\* identifiers), an identifier delivered in one run is not delivered in any
\* later run.
C18_NoRedeliveryInLaterRuns ==
    \A p \in Procs :
        (prev[p].clean /\ FailedSends(p) = {}) =>
            \A i \in OkSends(p) : io[p][i].eid \notin prev[p].delivered

\* an earlier run delivered an entry; this run delivered another one that
\* was published in between, with the entry of the earlier run still in the feed
C18_Witness ==
    \E p \in Procs :
        /\ prev[p].clean
        /\ prev[p].delivered # {}
        /\ OkSends(p) # {}
        /\ \E e \in Range(feed.entries) : pick_entry_id(e) \in prev[p].delivered
        /\ prev[p].entries # feed.entries
        /\ pc[p] = "Done"

\* C17: two overlapping invocations are not coordinated: whenever an
\* invocation saves, the state file becomes that invocation's own seen-set,
\* whatever another invocation wrote since this one loaded; so there are
\* interleavings in which both deliver the same entry and in which the final
\* seen_ids miss an identifier that one of them delivered and wrote.
C17_SaveOverwrites ==
    [][\A p \in Procs :
          (pc[p] = "Delivering" /\ pc'[p] = "Done")
              => /\ file'.kind = "valid"
                 /\ Range(file'.seen_ids.named) = seen[p].named
                 /\ seen[p].named = LoadedIds(p) \cup DeliveredIds(p)]_vars

\* two invocations, one of each process, ran to their end; both delivered the
\* same identifier, and an identifier that one of them delivered and wrote is
\* not in the file
C17_Witness ==
    \E p, q \in Procs :
        /\ p # q
        /\ AllClean(p) /\ AllClean(q)
        /\ prev[p] = NoHistory /\ prev[q] = NoHistory
        /\ EverDelivered(p) \cap EverDelivered(q) # {}
        /\ file.kind = "valid"
        /\ EverSaved(p) \ Range(file.seen_ids.named) # {}

\* C19: progress over repeated runs: with a fixed feed, max_items >= 1, sends
\* that always succeed and fewer than 1000 identifiers, the runs eventually
\* deliver every feed entry that has a non-empty message (its identifier is
\* then in the state file for good); no unseen deliverable entry is
\* postponed forever.
C19_EveryDeliverableEntryDelivered == <>[]AllDeliverableSeen

\* the same for feeds all of whose entries have a message: all of them are
\* delivered, and from then on every run reports nothing new
C19_HoldsWithoutEmptyMessages ==
    (\A e \in Range(feed.entries) : Deliverable(e))
        => <>[](AllDeliverableSeen /\ \A p \in Runners : ReportsNothingNew(p))

====
